---------------------------- MODULE Spec2Model ----------------------------
(***************************************************************************)
(* Model of src/app.py (ERP Veri Aktarimi): the rule normalisation, the    *)
(* template store, the pandas-based transform and the per-rerun mapping    *)
(* merge of the Streamlit script.                                          *)
(*                                                                         *)
(* Python strings are sequences of characters; a character is a one-letter *)
(* TLA+ string, a non-ASCII code point is written "U+XXXX".  Python values *)
(* are tagged records (PyNone, PyStr, PyInt, PyBool, PyList, PyDict).      *)
(***************************************************************************)
EXTENDS Integers, Sequences, FiniteSets, TLC

VARIABLES
    nr_in,        \* normalize_rule harness: the arguments of the call
    nr_out,       \* normalize_rule harness: the returned rule, or Pending
    tr_in,        \* transform harness: the arguments of the call
    tr_out,       \* transform harness: the returned DataFrame, or Pending
    files,        \* TEMPLATE_DIR: file name -> file content
    clock,        \* datetime.now(), in seconds
    log,          \* store harness: history of its save_template calls, in order
    st_res,       \* store harness: what the last store call returned
    tgt_cols,     \* session: tgt_cols (line 122)
    src_df,       \* session: src_df (line 118)
    chosen_tpl,   \* session: the "tpl_select" selectbox
    search,       \* session: the search text_input
    widgets,      \* session: the map_<tgt> / manual_<tgt> widget states
    run           \* session: what the last script run computed

vars == <<nr_in, nr_out, tr_in, tr_out, files, clock, log, st_res,
          tgt_cols, src_df, chosen_tpl, search, widgets, run>>

Pending == [k |-> "pending"]
Idle == [k |-> "idle"]

-----------------------------------------------------------------------------
(* Strings *)

s_type    == <<"t","y","p","e">>
s_value   == <<"v","a","l","u","e">>
s_blank   == <<"b","l","a","n","k">>
s_source  == <<"s","o","u","r","c","e">>
s_manual  == <<"m","a","n","u","a","l">>
s_mapping == <<"m","a","p","p","i","n","g">>
s_saved_at == <<"_","s","a","v","e","d","_","a","t">>
s_empty   == <<>>

\* blank_option = "(Boş)", manual_option = "(Manuel Değer Gir)", "(Seçme)"
blank_option  == <<"(","B","o","U+015F",")">>
manual_option == <<"(","M","a","n","u","e","l"," ","D","e","U+011F","e","r"," ","G","i","r",")">>
no_template   == <<"(","S","e","U+00E7","m","e",")">>

Range(seq) == {seq[i] : i \in 1..Len(seq)}

RECURSIVE JoinStr(_, _)
\* sep.join(parts)
JoinStr(parts, sep) ==
    IF parts = <<>> THEN <<>>
    ELSE IF Len(parts) = 1 THEN parts[1]
    ELSE parts[1] \o sep \o JoinStr(Tail(parts), sep)

-----------------------------------------------------------------------------
(* Python values *)

PyNone      == [k |-> "none"]
PyStr(s)    == [k |-> "str", s |-> s]
PyInt(n)    == [k |-> "int", n |-> n]
PyBool(b)   == [k |-> "bool", b |-> b]
PyList(xs)  == [k |-> "list", items |-> xs]
PyDict(f)   == [k |-> "dict", d |-> f]

IsStr(v)  == v.k = "str"
IsDict(v) == v.k = "dict"

\* d.get(key, default)
DictGet(v, key, default) == IF key \in DOMAIN v.d THEN v.d[key] ELSE default

Digit(n) == <<"0","1","2","3","4","5","6","7","8","9">>[n + 1]

RECURSIVE NatStr(_)
NatStr(n) == IF n < 10 THEN <<Digit(n)>> ELSE NatStr(n \div 10) \o <<Digit(n % 10)>>

\* str(int)
IntStr(n) == IF n < 0 THEN <<"-">> \o NatStr(-n) ELSE NatStr(n)

RECURSIVE Repr(_)
\* repr(v); a str is quoted, a list is bracketed, a dict of at most one
\* entry is braced (larger dicts are not drawn as inputs).
Repr(v) ==
    CASE v.k = "none" -> <<"N","o","n","e">>
      [] v.k = "int"  -> IntStr(v.n)
      [] v.k = "bool" -> IF v.b THEN <<"T","r","u","e">> ELSE <<"F","a","l","s","e">>
      [] v.k = "str"  -> <<"'">> \o v.s \o <<"'">>
      [] v.k = "list" -> <<"[">> \o JoinStr([i \in 1..Len(v.items) |-> Repr(v.items[i])], <<",", " ">>) \o <<"]">>
      [] v.k = "dict" -> IF DOMAIN v.d = {} THEN <<"{","}">>
                         ELSE LET key == CHOOSE x \in DOMAIN v.d : TRUE
                              IN <<"{">> \o Repr(PyStr(key)) \o <<":"," ">> \o Repr(v.d[key]) \o <<"}">>

\* str(v)
Str(v) == IF v.k = "str" THEN v.s ELSE Repr(v)

-----------------------------------------------------------------------------
(* Rule model: normalize_rule *)

RuleBlank       == PyDict(s_type :> PyStr(s_blank))
RuleSource(col) == PyDict(s_type :> PyStr(s_source) @@ s_value :> PyStr(col))
RuleManual(val) == PyDict(s_type :> PyStr(s_manual) @@ s_value :> PyStr(val))

\* A mutant: the legacy branch forgets the manual marker.
normalize_rule_no_manual_marker(rule, blank_opt, manual_opt) ==
    IF rule = PyNone THEN RuleBlank
    ELSE IF IsDict(rule) /\ s_type \in DOMAIN rule.d THEN
        LET t == DictGet(rule, s_type, PyNone) IN
        IF t = PyStr(s_source) THEN RuleSource(Str(DictGet(rule, s_value, PyStr(s_empty))))
        ELSE IF t = PyStr(s_manual) THEN RuleManual(Str(DictGet(rule, s_value, PyStr(s_empty))))
        ELSE RuleBlank
    ELSE IF IsStr(rule) THEN
        IF rule.s = blank_opt THEN RuleBlank
        ELSE RuleSource(rule.s)
    ELSE RuleBlank

normalize_rule(rule, blank_opt, manual_opt) ==
    IF rule = PyNone THEN RuleBlank
    ELSE IF IsDict(rule) /\ s_type \in DOMAIN rule.d THEN
        LET t == DictGet(rule, s_type, PyNone) IN
        IF t = PyStr(s_source) THEN RuleSource(Str(DictGet(rule, s_value, PyStr(s_empty))))
        ELSE IF t = PyStr(s_manual) THEN RuleManual(Str(DictGet(rule, s_value, PyStr(s_empty))))
        ELSE RuleBlank
    ELSE IF IsStr(rule) THEN
        IF rule.s = blank_opt THEN RuleBlank
        ELSE IF rule.s = manual_opt THEN RuleManual(s_empty)
        ELSE RuleSource(rule.s)
    ELSE RuleBlank

-----------------------------------------------------------------------------
(* pandas: the part of DataFrame that transform uses *)

NA  == [k |-> "NA"]     \* pd.NA
NaN == [k |-> "nan"]    \* np.nan, the fill value of a reindex

IsNull(cell) == cell = NA \/ cell = NaN

\* pd.DataFrame(): no columns, no rows
EmptyFrame == [index |-> <<>>, columns |-> <<>>, data |-> <<>>]

NRows(df) == Len(df.index)

Series(index, values) == [k |-> "series", index |-> index, values |-> values]

\* df[key], key a column of df
GetColumn(df, key) == Series(df.index, df.data[key])

\* DataFrame._ensure_valid_index: a frame without rows takes the index of
\* the first non-empty Series assigned to it, and its existing columns are
\* reindexed to that index with NaN.
EnsureValidIndex(df, value) ==
    IF Len(df.index) = 0 /\ value.k = "series" /\ Len(value.values) > 0
    THEN [df EXCEPT !.index = value.index,
                    !.data = [c \in DOMAIN df.data |->
                                 [i \in 1..Len(value.index) |-> NaN]]]
    ELSE df

\* DataFrame._sanitize_column: a Series is aligned on the frame's index, a
\* scalar is broadcast over it.
SanitizeColumn(df, value) ==
    IF value.k = "series"
    THEN [i \in 1..Len(df.index) |->
             IF \E j \in 1..Len(value.index) : value.index[j] = df.index[i]
             THEN value.values[CHOOSE j \in 1..Len(value.index) :
                                   value.index[j] = df.index[i]]
             ELSE NaN]
    ELSE [i \in 1..Len(df.index) |-> value]

\* A mutant: every assignment appends a column, also for a name the frame
\* already holds.
SetItemAlwaysAppend(df, key, value) ==
    LET d1  == EnsureValidIndex(df, value)
        col == SanitizeColumn(d1, value)
    IN  [index   |-> d1.index,
         columns |-> Append(d1.columns, key),
         data    |-> [c \in DOMAIN d1.data \cup {key} |->
                         IF c = key THEN col ELSE d1.data[c]]]

\* df[key] = value: an existing column is replaced in place, a new one is
\* appended.
SetItem(df, key, value) ==
    LET d1  == EnsureValidIndex(df, value)
        col == SanitizeColumn(d1, value)
    IN  [index   |-> d1.index,
         columns |-> IF key \in Range(d1.columns) THEN d1.columns
                     ELSE Append(d1.columns, key),
         data    |-> [c \in DOMAIN d1.data \cup {key} |->
                         IF c = key THEN col ELSE d1.data[c]]]

-----------------------------------------------------------------------------
(* Transform engine: transform *)

\* The value assigned to out[tgt_col] for one rule (lines 84-92).
ColumnValue(src, rule) ==
    IF rule.d[s_type] = PyStr(s_source) THEN
        LET src_col == DictGet(rule, s_value, PyStr(s_empty)) IN
        IF src_col.k = "str" /\ src_col.s \in Range(src.columns)
        THEN GetColumn(src, src_col.s) ELSE NA
    ELSE IF rule.d[s_type] = PyStr(s_manual) THEN
        DictGet(rule, s_value, PyStr(s_empty))
    ELSE NA

RECURSIVE TransformLoop(_, _, _, _)
\* The for loop of transform over the rest of tgt_cols_order.
TransformLoop(out, src, cols, mapping) ==
    IF cols = <<>> THEN out
    ELSE LET tgt_col == Head(cols)
             rule    == DictGet(mapping, tgt_col, RuleBlank)
         IN  TransformLoop(SetItem(out, tgt_col, ColumnValue(src, rule)),
                           src, Tail(cols), mapping)

transform(src, tgt_cols_order, mapping) ==
    TransformLoop(EmptyFrame, src, tgt_cols_order, mapping)

-----------------------------------------------------------------------------
(* Bounds and input sets of the two pure-function harnesses *)

MaxRows == 2      \* source tables have 0..MaxRows rows
MaxCols == 3      \* target column lists have 1..MaxCols entries

col_A == <<"A">>
col_B == <<"B">>
col_Z == <<"Z">>
tgt_X == <<"X">>
tgt_Y == <<"Y">>
s_fixed == <<"f","i","x","e","d">>

\* A source sheet as read_excel returns it: a RangeIndex, unique column
\* labels, one cell per row and column.
MkTable(cols, nrows) ==
    [index   |-> [i \in 1..nrows |-> i - 1],
     columns |-> cols,
     data    |-> [c \in Range(cols) |-> [i \in 1..nrows |-> PyStr(c \o IntStr(i - 1))]]]

\* the non-empty lists over S of at most n entries
SeqsUpTo(S, n) == UNION {[1..m -> S] : m \in 1..n}

HarnessRules == {RuleBlank, RuleSource(col_A), RuleSource(col_Z), RuleManual(s_fixed)}

HarnessMappings ==
    UNION {{PyDict(f) : f \in [keys -> HarnessRules]} : keys \in SUBSET {tgt_X, tgt_Y}}

TransformInputs ==
    [src : {MkTable(cols, n) : cols \in {<<col_A>>, <<col_A, col_B>>}, n \in 0..MaxRows},
     tgt_cols_order : SeqsUpTo({tgt_X, tgt_Y}, MaxCols),
     mapping : HarnessMappings]

alt_blank  == <<"-">>
alt_manual == <<"*">>

MarkerPairs == {<<blank_option, manual_option>>, <<alt_blank, alt_manual>>,
                <<alt_manual, alt_blank>>}

RawValues == {PyNone, PyStr(s_empty), PyStr(col_A), PyInt(5), PyInt(-12), PyBool(TRUE),
              PyList(<<>>), PyList(<<PyInt(1), PyStr(col_A)>>)}

RawRules ==
    {PyNone, PyInt(5), PyBool(FALSE), PyList(<<>>), PyList(<<PyStr(col_A)>>),
     PyStr(blank_option), PyStr(manual_option), PyStr(alt_blank), PyStr(alt_manual),
     PyStr(col_A), PyStr(s_empty), PyStr(s_blank), PyStr(s_manual),
     PyDict(<<>>), PyDict(s_value :> PyStr(col_A)),
     PyDict(s_type :> PyStr(s_source)), PyDict(s_type :> PyStr(s_manual)),
     PyDict(s_type :> PyStr(s_blank)), PyDict(s_type :> PyStr(s_blank) @@ s_value :> PyStr(col_A)),
     PyDict(s_type :> PyStr(<<"S","o","u","r","c","e">>) @@ s_value :> PyStr(col_A)),
     PyDict(s_type :> PyNone), PyDict(s_type :> PyInt(5)),
     PyDict(s_type :> PyList(<<>>) @@ s_value :> PyStr(col_A))}
    \cup {PyDict(s_type :> PyStr(s_source) @@ s_value :> v) : v \in RawValues}
    \cup {PyDict(s_type :> PyStr(s_manual) @@ s_value :> v) : v \in RawValues}

NormalizeInputs ==
    {[rule |-> r, blank_option |-> mp[1], manual_option |-> mp[2]] :
        r \in RawRules, mp \in MarkerPairs}

SessionIdle ==
    /\ files = Idle /\ clock = 0 /\ log = <<>> /\ st_res = Idle
    /\ tgt_cols = Idle /\ src_df = Idle /\ chosen_tpl = Idle
    /\ search = Idle /\ widgets = Idle /\ run = Idle

-----------------------------------------------------------------------------
(* Harness of normalize_rule *)

NormalizeInit ==
    /\ nr_in \in NormalizeInputs
    /\ nr_out = Pending
    /\ tr_in = Idle /\ tr_out = Idle
    /\ SessionIdle

NormalizeCall ==
    /\ nr_out = Pending
    /\ nr_out' = normalize_rule(nr_in.rule, nr_in.blank_option, nr_in.manual_option)
    /\ UNCHANGED <<nr_in, tr_in, tr_out, files, clock, log, st_res,
                   tgt_cols, src_df, chosen_tpl, search, widgets, run>>

NormalizeSpec == NormalizeInit /\ [][NormalizeCall]_vars

-----------------------------------------------------------------------------
(* Harness of transform *)

TransformInit ==
    /\ tr_in \in TransformInputs
    /\ tr_out = Pending
    /\ nr_in = Idle /\ nr_out = Idle
    /\ SessionIdle

TransformCall ==
    /\ tr_out = Pending
    /\ tr_out' = transform(tr_in.src, tr_in.tgt_cols_order, tr_in.mapping)
    /\ UNCHANGED <<tr_in, nr_in, nr_out, files, clock, log, st_res,
                   tgt_cols, src_df, chosen_tpl, search, widgets, run>>

TransformSpec == TransformInit /\ [][TransformCall]_vars

-----------------------------------------------------------------------------
(* Characters: code point order, str.isalnum, str.lower, str.strip *)

UpperAscii == <<"A","B","C","D","E","F","G","H","I","J","K","L","M",
                "N","O","P","Q","R","S","T","U","V","W","X","Y","Z">>
LowerAscii == <<"a","b","c","d","e","f","g","h","i","j","k","l","m",
                "n","o","p","q","r","s","t","u","v","w","x","y","z">>
DigitChars == <<"0","1","2","3","4","5","6","7","8","9">>

\* The characters of the model, in code point order.  U+00E7, U+011F,
\* U+015F are the lower-case letters c-cedilla, g-breve, s-cedilla, U+015E
\* is the upper-case S-cedilla.
Alphabet ==
    <<" ", "!", "'", "(", ")", "*", ",", "-", ".", "/">> \o DigitChars
    \o <<":">> \o UpperAscii \o <<"[", "]", "_">> \o LowerAscii
    \o <<"{", "}", "U+00E7", "U+011F", "U+015E", "U+015F">>

OrdTable ==
    [c \in Range(Alphabet) |-> CHOOSE i \in 1..Len(Alphabet) : Alphabet[i] = c]

\* the rank of c in code point order
Ord(c) == OrdTable[c]

NonAsciiLetters == {"U+00E7", "U+011F", "U+015E", "U+015F"}

\* c.isalnum(): true of every Unicode letter and digit, not only of ASCII
IsAlnum(c) ==
    c \in Range(UpperAscii) \cup Range(LowerAscii) \cup Range(DigitChars)
          \cup NonAsciiLetters

\* c.lower()
LowerChar(c) ==
    IF c \in Range(UpperAscii)
    THEN LowerAscii[CHOOSE i \in 1..26 : UpperAscii[i] = c]
    ELSE IF c = "U+015E" THEN "U+015F" ELSE c

\* s.lower()
Lower(s) == [i \in 1..Len(s) |-> LowerChar(s[i])]

RECURSIVE LStrip(_)
LStrip(s) == IF s # <<>> /\ Head(s) = " " THEN LStrip(Tail(s)) ELSE s

RECURSIVE RStrip(_)
RStrip(s) ==
    IF s # <<>> /\ s[Len(s)] = " " THEN RStrip(SubSeq(s, 1, Len(s) - 1)) ELSE s

\* s.strip()
Strip(s) == RStrip(LStrip(s))

\* s.replace(" ", "_")
ReplaceSpaces(s) == [i \in 1..Len(s) |-> IF s[i] = " " THEN "_" ELSE s[i]]

\* sub in s
Contains(s, sub) ==
    \E i \in 0..(Len(s) - Len(sub)) : SubSeq(s, i + 1, i + Len(sub)) = sub

\* s.endswith(suffix)
EndsWith(s, suffix) ==
    /\ Len(s) >= Len(suffix)
    /\ SubSeq(s, Len(s) - Len(suffix) + 1, Len(s)) = suffix

RECURSIVE StrLess(_, _)
\* a < b for two str
StrLess(a, b) ==
    IF b = <<>> THEN FALSE
    ELSE IF a = <<>> THEN TRUE
    ELSE IF Head(a) # Head(b) THEN Ord(Head(a)) < Ord(Head(b))
    ELSE StrLess(Tail(a), Tail(b))

RECURSIVE Least(_)
\* min(S) for a non-empty set S of str
Least(S) ==
    LET x == CHOOSE y \in S : TRUE IN
    IF S = {x} THEN x
    ELSE LET m == Least(S \ {x}) IN IF StrLess(x, m) THEN x ELSE m

RECURSIVE Sorted(_)
\* sorted(S) for a set S of str
Sorted(S) ==
    IF S = {} THEN <<>>
    ELSE LET least == Least(S) IN <<least>> \o Sorted(S \ {least})

-----------------------------------------------------------------------------
(* Template store: list_templates, save_template, load_template *)

dot_json   == <<".","j","s","o","n">>
s_template == <<"t","e","m","p","l","a","t","e">>

\* A file whose text json.load parses to val / a file it cannot parse.
JsonText(val) == [ok |-> TRUE, val |-> val]
Garbage       == [ok |-> FALSE]

\* json.dump(payload, f): payload is built of dict with str keys, list and
\* str only, so the text parses back to the same value.
JsonDump(payload) == JsonText(payload)

list_templates(fs) == Sorted({fn \in DOMAIN fs : EndsWith(fn, dot_json)})

RECURSIVE KeepSafeChars(_)
\* "".join(c for c in name if c.isalnum() or c in ("-", "_", " "))
KeepSafeChars(name) ==
    IF name = <<>> THEN <<>>
    ELSE IF IsAlnum(Head(name)) \/ Head(name) \in {"-", "_", " "}
         THEN <<Head(name)>> \o KeepSafeChars(Tail(name))
         ELSE KeepSafeChars(Tail(name))

\* A mutant: the spaces are not replaced.
SafeNameKeepsSpaces(name) ==
    LET safe == Strip(KeepSafeChars(name))
    IN  IF safe = <<>> THEN s_template ELSE safe

\* safe of save_template (lines 39-41)
SafeName(name) ==
    LET safe == ReplaceSpaces(Strip(KeepSafeChars(name)))
    IN  IF safe = <<>> THEN s_template ELSE safe

\* datetime.now().isoformat(timespec="seconds"): the second, as text
IsoFormat(now) == IntStr(now)

\* the payload once line 43 has stamped it
Stamped(payload, now) ==
    PyDict([key \in DOMAIN payload.d \cup {s_saved_at} |->
               IF key = s_saved_at THEN PyStr(IsoFormat(now)) ELSE payload.d[key]])

\* the file name save_template writes to
SavePath(name) == SafeName(name) \o dot_json

\* A mutant: a save that finds the file present leaves it as it is.
save_template_keeps_existing(fs, name, payload, now) ==
    IF SavePath(name) \in DOMAIN fs THEN fs
    ELSE [fn \in DOMAIN fs \cup {SavePath(name)} |->
             IF fn = SavePath(name) THEN JsonDump(Stamped(payload, now)) ELSE fs[fn]]

\* save_template: the directory after the call
save_template(fs, name, payload, now) ==
    [fn \in DOMAIN fs \cup {SavePath(name)} |->
        IF fn = SavePath(name) THEN JsonDump(Stamped(payload, now)) ELSE fs[fn]]

\* load_template: the value returned, or the exception raised
load_template(fs, filename) ==
    IF filename \notin DOMAIN fs THEN [exc |-> "FileNotFoundError"]
    ELSE IF ~fs[filename].ok THEN [exc |-> "JSONDecodeError"]
    ELSE [exc |-> "", val |-> fs[filename].val]

-----------------------------------------------------------------------------
(* The sheets and the template directory every behaviour starts from *)

s_source_sheet == <<"s","o","u","r","c","e","_","s","h","e","e","t">>
s_target_sheet == <<"t","a","r","g","e","t","_","s","h","e","e","t">>
s_source_columns_snapshot ==
    <<"s","o","u","r","c","e","_","c","o","l","u","m","n","s","_","s","n","a","p","s","h","o","t">>
s_target_columns_snapshot ==
    <<"t","a","r","g","e","t","_","c","o","l","u","m","n","s","_","s","n","a","p","s","h","o","t">>

\* payload of the save button (lines 235-241)
MkPayload(source_sheet, target_sheet, source_cols, target_cols, mapping) ==
    PyDict(s_source_sheet :> PyStr(source_sheet)
        @@ s_target_sheet :> PyStr(target_sheet)
        @@ s_source_columns_snapshot :> PyList([i \in 1..Len(source_cols) |-> PyStr(source_cols[i])])
        @@ s_target_columns_snapshot :> PyList([i \in 1..Len(target_cols) |-> PyStr(target_cols[i])])
        @@ s_mapping :> mapping)

sheet_1  == <<"S","1">>
col_Ad   == <<"A","d">>
col_Eski == <<"E","s","k","i">>
tgt_Mu   == <<"M","u">>
tgt_Il   == <<"I","l">>
s_k      == <<"k">>

file_old   == <<"o","l","d">> \o dot_json
file_v2    == <<"v","2">> \o dot_json
file_bad   == <<"b","a","d">> \o dot_json
file_list  == <<"l","i","s","t">> \o dot_json
file_map   == <<"m","a","p">> \o dot_json
file_notes == <<"n","o","t","e","s",".","t","x","t">>
file_nope  == <<"n","o","p","e">> \o dot_json

\* a template of the old schema: the rule is the option text
LegacyDoc ==
    PyDict(s_mapping :> PyDict(tgt_Mu :> PyStr(col_Ad) @@ tgt_Il :> PyStr(manual_option)))

\* a template of the new schema, naming a source column that is gone
StructuredDoc ==
    MkPayload(sheet_1, sheet_1, <<col_Eski>>, <<tgt_Mu, tgt_Il>>,
              PyDict(tgt_Mu :> RuleManual(s_k) @@ tgt_Il :> RuleSource(col_Eski)))

\* TEMPLATE_DIR as the program finds it: templates of both schemas, a file
\* that is not JSON, two JSON files that are not template documents, and a
\* file that is not a template at all.
InitialDir ==
    file_old :> JsonText(LegacyDoc)
    @@ file_v2 :> JsonText(StructuredDoc)
    @@ file_bad :> Garbage
    @@ file_list :> JsonText(PyList(<<PyInt(1)>>))
    @@ file_map :> JsonText(PyDict(s_mapping :> PyStr(col_Ad)))
    @@ file_notes :> Garbage

-----------------------------------------------------------------------------
(* Harness of the template store *)

MaxSaves == 2     \* save_template calls per behaviour of the store harness

name_my   == <<"M","y"," ","T","!">>
name_my2  == <<"M","y","_","T">>
name_old  == <<"o","l","d">>
name_sa   == <<"U+015E","a">>
name_bang == <<" ","!","/"," ">>

SaveNames == {name_my, name_my2, name_old, name_sa, name_bang}

HarnessPayloads ==
    {MkPayload(sheet_1, sheet_1, <<col_Ad>>, <<tgt_Mu, tgt_Il>>, m) :
        m \in {PyDict(tgt_Mu :> RuleSource(col_Ad) @@ tgt_Il :> RuleBlank),
               PyDict(tgt_Mu :> RuleManual(s_fixed) @@ tgt_Il :> RuleSource(col_Ad))}}

StoreInit ==
    /\ files = InitialDir
    /\ clock = 0
    /\ log = <<>>
    /\ st_res = [op |-> "none"]
    /\ nr_in = Idle /\ nr_out = Idle /\ tr_in = Idle /\ tr_out = Idle
    /\ tgt_cols = Idle /\ src_df = Idle /\ chosen_tpl = Idle
    /\ search = Idle /\ widgets = Idle /\ run = Idle

StoreUnchanged ==
    UNCHANGED <<nr_in, nr_out, tr_in, tr_out, tgt_cols, src_df, chosen_tpl,
                search, widgets, run>>

\* save_template(name, payload); the clock reads one second more at every
\* call
StoreSave ==
    /\ Len(log) < MaxSaves
    /\ \E name \in SaveNames, payload \in HarnessPayloads :
          LET now == clock + 1 IN
          /\ clock' = now
          /\ files' = save_template(files, name, payload, now)
          /\ log' = Append(log, [name |-> name, payload |-> payload, now |-> now])
          /\ st_res' = [op |-> "save", name |-> name, path |-> SavePath(name)]
    /\ StoreUnchanged

\* load_template(filename)
StoreLoad ==
    /\ \E filename \in Range(list_templates(files)) \cup {file_nope} :
          st_res' = [op |-> "load", filename |-> filename,
                     result |-> load_template(files, filename)]
    /\ UNCHANGED <<files, clock, log>>
    /\ StoreUnchanged

\* list_templates()
StoreList ==
    /\ st_res' = [op |-> "list", result |-> list_templates(files)]
    /\ UNCHANGED <<files, clock, log>>
    /\ StoreUnchanged

StoreNext == StoreSave \/ StoreLoad \/ StoreList

StoreSpec == StoreInit /\ [][StoreNext]_vars

-----------------------------------------------------------------------------
(* Mapping session: one run of the script from line 144 to line 254 *)

s_eslestirme == <<"e","s","l","e","s","t","i","r","m","e">>

\* bool(v)
Truthy(v) ==
    CASE v.k = "none" -> FALSE
      [] v.k = "bool" -> v.b
      [] v.k = "int"  -> v.n # 0
      [] v.k = "str"  -> v.s # <<>>
      [] v.k = "list" -> v.items # <<>>
      [] v.k = "dict" -> DOMAIN v.d # {}

\* src_cols / tgt_cols (lines 121-122): the labels of a sheet, as str
ColumnNames(df) == df.columns

\* options (line 160)
Options(src_cols) == <<blank_option, manual_option>> \o src_cols

\* lines 149-155: the template the selectbox names is loaded; any exception
\* of load_template is shown with st.error and leaves loaded_tpl None.
LoadChosen(fs, chosen) ==
    IF chosen = no_template THEN [msg |-> "none", loaded_tpl |-> PyNone]
    ELSE LET r == load_template(fs, chosen) IN
         IF r.exc # "" THEN [msg |-> "error", loaded_tpl |-> PyNone]
         ELSE [msg |-> "success", loaded_tpl |-> r.val]

\* line 162: loaded_tpl.get("mapping", {}) if loaded_tpl else {}; a truthy
\* value that is no dict has no get.
PrefillMapping(loaded_tpl) ==
    IF ~Truthy(loaded_tpl) THEN [exc |-> "", val |-> PyDict(<<>>)]
    ELSE IF IsDict(loaded_tpl)
         THEN [exc |-> "", val |-> DictGet(loaded_tpl, s_mapping, PyDict(<<>>))]
         ELSE [exc |-> "AttributeError"]

RECURSIVE FilterContains(_, _)
\* [c for c in cols if needle in c.lower()]
FilterContains(cols, needle) ==
    IF cols = <<>> THEN <<>>
    ELSE IF Contains(Lower(Head(cols)), needle)
         THEN <<Head(cols)>> \o FilterContains(Tail(cols), needle)
         ELSE FilterContains(Tail(cols), needle)

\* visible_tgts (line 177)
VisibleTgts(cols, srch) ==
    IF Strip(srch) # <<>> THEN FilterContains(cols, Lower(Strip(srch))) ELSE cols

\* default_choice (lines 182-190)
DefaultChoice(pre_rule, options) ==
    LET first == IF pre_rule.d[s_type] = PyStr(s_blank) THEN blank_option
                 ELSE IF pre_rule.d[s_type] = PyStr(s_manual) THEN manual_option
                 ELSE DictGet(pre_rule, s_value, PyStr(blank_option)).s
    IN  IF first \notin Range(options) THEN blank_option ELSE first

\* default_manual (line 200)
DefaultManual(pre_rule) ==
    IF pre_rule.d[s_type] = PyStr(s_manual)
    THEN DictGet(pre_rule, s_value, PyStr(s_empty)).s ELSE s_empty

\* st.selectbox(..., key="map_<tgt>"): the value the session holds for the
\* widget if it was drawn in the run before, else the default.  A Streamlit
\* release identifies a widget by its key alone (by_key) or by its key and
\* parameters, so that a widget drawn with another default is a new one.
SelectboxValue(wprev, tgt, default_choice, by_key) ==
    IF tgt \in DOMAIN wprev /\ (by_key \/ wprev[tgt].default_choice = default_choice)
    THEN wprev[tgt].choice ELSE default_choice

\* st.text_input(..., key="manual_<tgt>"), likewise
TextInputValue(wprev, tgt, default_manual, by_key) ==
    IF /\ tgt \in DOMAIN wprev
       /\ wprev[tgt].text # PyNone
       /\ (by_key \/ wprev[tgt].default_manual = default_manual)
    THEN wprev[tgt].text.s ELSE default_manual

\* mapping[tgt] of a visible column (lines 199-210)
LiveRule(choice, val) ==
    IF choice = manual_option THEN RuleManual(val)
    ELSE IF choice = blank_option THEN RuleBlank
    ELSE RuleSource(choice)

\* One iteration of the loop over visible_tgts (lines 180-210): the
\* default, the widget values and the rule of tgt.
VisibleColumn(prefill, options, wprev, by_key, tgt) ==
    LET pre_rule == normalize_rule(DictGet(prefill, tgt, PyNone), blank_option, manual_option)
        default_choice == DefaultChoice(pre_rule, options)
        default_manual == DefaultManual(pre_rule)
        choice == SelectboxValue(wprev, tgt, default_choice, by_key)
        val    == TextInputValue(wprev, tgt, default_manual, by_key)
    IN  [widget |-> [choice |-> choice,
                     text |-> IF choice = manual_option THEN PyStr(val) ELSE PyNone,
                     default_choice |-> default_choice,
                     default_manual |-> default_manual],
         rule |-> LiveRule(choice, val)]

\* A mutant: the columns out of view are left out of the mapping.
FillHiddenSkipped(mapping, cols, prefill) == mapping

\* A mutant: the columns out of view are all blank.
FillHiddenBlank(mapping, cols, prefill) ==
    PyDict([tgt \in DOMAIN mapping.d \cup Range(cols) |->
               IF tgt \in DOMAIN mapping.d THEN mapping.d[tgt] ELSE RuleBlank])

\* lines 214-217: every target column not yet in mapping takes its
\* normalized prefill rule.
FillHidden(mapping, cols, prefill) ==
    PyDict([tgt \in DOMAIN mapping.d \cup Range(cols) |->
               IF tgt \in DOMAIN mapping.d THEN mapping.d[tgt]
               ELSE normalize_rule(DictGet(prefill, tgt, PyNone), blank_option, manual_option)])

Crashed(line, msg, prefill) ==
    [crashed_at |-> line, msg |-> msg, prefill |-> prefill, visible |-> <<>>,
     widgets |-> <<>>, mapping |-> PyNone, out_df |-> PyNone]

\* Lines 170-217 and 254 for a prefill_mapping that is a dict.
MappingAndTransform(msg, prefill, cols, src, srch, wprev, by_key) ==
    LET visible == VisibleTgts(cols, srch)
        options == Options(ColumnNames(src))
        shown   == [tgt \in Range(visible) |-> VisibleColumn(prefill, options, wprev, by_key, tgt)]
        live    == PyDict([tgt \in Range(visible) |-> shown[tgt].rule])
        mapping == FillHidden(live, cols, prefill)
    IN  [crashed_at |-> 0, msg |-> msg, prefill |-> prefill, visible |-> visible,
         widgets |-> [tgt \in Range(visible) |-> shown[tgt].widget],
         mapping |-> mapping,
         out_df |-> transform(src, cols, mapping)]

\* One run of the script.  prefill_mapping.get raises AttributeError for a
\* prefill_mapping that is no dict: in the first iteration of the loop over
\* the visible columns (line 180), else in the fill loop (line 216); with
\* no target column at all get is never called.
ScriptRun(fs, chosen, cols, src, srch, wprev, by_key) ==
    LET loaded  == LoadChosen(fs, chosen)
        prefill == PrefillMapping(loaded.loaded_tpl)
    IN  IF prefill.exc # "" THEN Crashed(162, loaded.msg, PyNone)
        ELSE IF IsDict(prefill.val)
             THEN MappingAndTransform(loaded.msg, prefill.val, cols, src, srch, wprev, by_key)
        ELSE IF VisibleTgts(cols, srch) # <<>> THEN Crashed(180, loaded.msg, prefill.val)
        ELSE IF cols # <<>> THEN Crashed(216, loaded.msg, prefill.val)
        ELSE MappingAndTransform(loaded.msg, PyDict(<<>>), cols, src, srch, wprev, by_key)

-----------------------------------------------------------------------------
(* The session: every user action reruns the script *)

\* the header row of the target sheet
TargetLists   == {<<tgt_Mu, tgt_Il>>, <<tgt_Il>>}
SearchTexts   == {s_empty, <<" ","M"," ">>, <<"L">>, <<"z">>}
ManualTexts   == {s_k}
\* tpl_name: left empty, or a name that derives the same identifier
TemplateNames == {s_empty, s_eslestirme \o <<"!">>}

\* what a run leaves in the session besides the widget states
Outcome(r) ==
    [crashed_at |-> r.crashed_at, msg |-> r.msg, prefill |-> r.prefill,
     visible |-> r.visible,
     mapping |-> r.mapping, out_df |-> r.out_df]

SessionUnchanged == UNCHANGED <<nr_in, nr_out, tr_in, tr_out, st_res, tgt_cols, src_df>>

\* Both files uploaded, first sheets selected, no template chosen, no
\* search text: the state after the first complete run.
Init ==
    /\ nr_in = Idle /\ nr_out = Idle /\ tr_in = Idle /\ tr_out = Idle
    /\ st_res = [op |-> "none"]
    /\ files = InitialDir
    /\ clock = 0
    /\ log = <<>>
    /\ tgt_cols \in TargetLists
    /\ src_df = MkTable(<<col_Ad>>, 2)
    /\ chosen_tpl = no_template
    /\ search = s_empty
    /\ \E r \in {ScriptRun(InitialDir, no_template, tgt_cols,
                           MkTable(<<col_Ad>>, 2), s_empty, <<>>, TRUE)} :
           widgets = r.widgets /\ run = Outcome(r)

\* The user picks another entry of the template selectbox (line 147).  A
\* mapping widget whose default changes with the template keeps its value
\* or is reset to the new default, depending on the Streamlit release.
SelectTemplate ==
    /\ \E t \in {no_template} \cup Range(list_templates(files)), by_key \in BOOLEAN :
          /\ t # chosen_tpl
          /\ chosen_tpl' = t
          /\ \E r \in {ScriptRun(files, t, tgt_cols, src_df, search, widgets, by_key)} :
                 widgets' = r.widgets /\ run' = Outcome(r)
    /\ UNCHANGED <<files, clock, log, search>>
    /\ SessionUnchanged

\* The user changes the search text (line 176); the box is drawn unless the
\* run before stopped at line 162.  The template is the same, so every
\* widget still drawn has the default it had.
SetSearch ==
    /\ run.crashed_at # 162
    /\ \E s \in SearchTexts :
          /\ s # search
          /\ search' = s
          /\ \E r \in {ScriptRun(files, chosen_tpl, tgt_cols, src_df, s, widgets, TRUE)} :
                 widgets' = r.widgets /\ run' = Outcome(r)
    /\ UNCHANGED <<files, clock, log, chosen_tpl>>
    /\ SessionUnchanged

\* The user picks another option for a visible target column (line 192).
EditChoice ==
    /\ run.crashed_at = 0
    /\ \E tgt \in DOMAIN widgets, c \in Range(Options(ColumnNames(src_df))) :
          /\ c # widgets[tgt].choice
          /\ \E r \in {ScriptRun(files, chosen_tpl, tgt_cols, src_df, search,
                                [widgets EXCEPT ![tgt].choice = c], TRUE)} :
                 widgets' = r.widgets /\ run' = Outcome(r)
    /\ UNCHANGED <<files, clock, log, chosen_tpl, search>>
    /\ SessionUnchanged

\* The user types a manual value for a visible target column (line 201).
EditManual ==
    /\ run.crashed_at = 0
    /\ \E tgt \in DOMAIN widgets, v \in ManualTexts :
          /\ widgets[tgt].text # PyNone
          /\ widgets[tgt].text # PyStr(v)
          /\ \E r \in {ScriptRun(files, chosen_tpl, tgt_cols, src_df, search,
                                [widgets EXCEPT ![tgt].text = PyStr(v)], TRUE)} :
                 widgets' = r.widgets /\ run' = Outcome(r)
    /\ UNCHANGED <<files, clock, log, chosen_tpl, search>>
    /\ SessionUnchanged

\* The user clicks the save button (lines 234-245): the run of the click
\* computes the mapping again, saves it under tpl_name or "eslestirme" and
\* calls st.rerun(), which runs the script from the top on the new directory.
\* _saved_at is written and never read: the session holds the clock still,
\* and the log of the store harness is not kept here.
SaveClick ==
    /\ run.crashed_at = 0
    /\ \E tpl_name \in TemplateNames, by_key \in BOOLEAN :
       \E click \in {ScriptRun(files, chosen_tpl, tgt_cols, src_df, search, widgets, TRUE)} :
       \E saved \in {save_template(files, IF tpl_name # <<>> THEN tpl_name ELSE s_eslestirme,
                                   MkPayload(sheet_1, sheet_1, ColumnNames(src_df),
                                             tgt_cols, click.mapping),
                                   clock)} :
       \E r \in {ScriptRun(saved, chosen_tpl, tgt_cols, src_df, search,
                           click.widgets, by_key)} :
          /\ files' = saved
          /\ widgets' = r.widgets /\ run' = Outcome(r)
    /\ UNCHANGED <<clock, log, chosen_tpl, search>>
    /\ SessionUnchanged

Next == SelectTemplate \/ SetSearch \/ EditChoice \/ EditManual \/ SaveClick

Spec == Init /\ [][Next]_vars

-----------------------------------------------------------------------------
(* Claims *)

RuleOf(mapping, tgt_col) == DictGet(mapping, tgt_col, RuleBlank)

IsSourceRule(rule) == rule.d[s_type] = PyStr(s_source)
IsManualRule(rule) == rule.d[s_type] = PyStr(s_manual)

\* C1: transform returns a table with exactly as many rows as the source
\* table, whatever rules the mapping holds.
C1_RowCountEqualsSource ==
    tr_out # Pending => NRows(tr_out) = NRows(tr_in.src)

RECURSIVE Dedup(_)
\* seq without the later occurrences of a repeated entry
Dedup(seq) ==
    IF seq = <<>> THEN <<>>
    ELSE LET front == Dedup(SubSeq(seq, 1, Len(seq) - 1))
             last  == seq[Len(seq)]
         IN  IF last \in Range(front) THEN front ELSE Append(front, last)

C3_ManualBroadcast ==
    tr_out # Pending =>
        \A c \in Range(tr_in.tgt_cols_order) :
            LET rule == RuleOf(tr_in.mapping, c) IN
            IsManualRule(rule) =>
                tr_out.data[c] = [i \in 1..NRows(tr_in.src) |-> rule.d[s_value]]

\* C4: a target column whose rule is Source(col) with col not a column of
\* the source table is a column of null markers, one per source row.
C4_MissingSourceIsNullColumn ==
    tr_out # Pending =>
        \A c \in Range(tr_in.tgt_cols_order) :
            LET rule == RuleOf(tr_in.mapping, c) IN
            (IsSourceRule(rule) /\ rule.d[s_value].s \notin Range(tr_in.src.columns)) =>
                /\ Len(tr_out.data[c]) = NRows(tr_in.src)
                /\ \A i \in 1..Len(tr_out.data[c]) : IsNull(tr_out.data[c][i])

IsCanonicalRule(rule) ==
    /\ IsDict(rule)
    /\ \/ rule = RuleBlank
       \/ /\ DOMAIN rule.d = {s_type, s_value}
          /\ rule.d[s_type] \in {PyStr(s_source), PyStr(s_manual)}
          /\ IsStr(rule.d[s_value])

\* C6: normalize_rule returns exactly one canonical variant for every input
\* shape: None -> Blank; a dict with type "source"/"manual" -> Source/Manual
\* of the stringified value (default ""); a dict with any other type ->
\* Blank; the blank marker -> Blank; the manual marker -> Manual(""); any
\* other string s -> Source(s); any other shape -> Blank.
C6_NormalizeTotal ==
    nr_out # Pending =>
        LET raw   == nr_in.rule
            typed == IsDict(raw) /\ s_type \in DOMAIN raw.d
            val   == IF s_value \in DOMAIN raw.d THEN Str(raw.d[s_value]) ELSE s_empty
        IN  /\ IsCanonicalRule(nr_out)
            /\ raw = PyNone => nr_out = RuleBlank
            /\ typed /\ raw.d[s_type] = PyStr(s_source) => nr_out = RuleSource(val)
            /\ typed /\ raw.d[s_type] = PyStr(s_manual) => nr_out = RuleManual(val)
            /\ typed /\ raw.d[s_type] \notin {PyStr(s_source), PyStr(s_manual)}
                  => nr_out = RuleBlank
            /\ IsStr(raw) /\ raw.s = nr_in.blank_option => nr_out = RuleBlank
            /\ IsStr(raw) /\ raw.s = nr_in.manual_option => nr_out = RuleManual(s_empty)
            /\ IsStr(raw) /\ raw.s \notin {nr_in.blank_option, nr_in.manual_option}
                  => nr_out = RuleSource(raw.s)
            /\ ~typed /\ ~IsStr(raw) => nr_out = RuleBlank

C6_Witness ==
    /\ nr_in # Idle
    /\ nr_in.rule = PyStr(manual_option)
    /\ nr_in.manual_option = manual_option
    /\ nr_out = RuleManual(s_empty)

\* the identifier of a template file: its name without ".json"
Identifier(path) == SubSeq(path, 1, Len(path) - Len(dot_json))

AsciiIdChars ==
    Range(UpperAscii) \cup Range(LowerAscii) \cup Range(DigitChars) \cup {"_", "-"}

\* C7 (as claimed): the identifier derived from any template name passed to
\* save is non-empty and holds only characters of [A-Za-z0-9_-].
C7_IdentifierIsAsciiSafe ==
    st_res.op = "save" =>
        LET id == Identifier(st_res.path) IN
        /\ id # <<>>
        /\ \A i \in 1..Len(id) : id[i] \in AsciiIdChars

\* C7 (amended): the identifier derived from any template name passed to
\* save is non-empty, names the file written, and holds only letters and
\* digits (of any script, as str.isalnum accepts them), "-" and "_"; for a
\* name whose letters and digits are all ASCII it holds only characters of
\* [A-Za-z0-9_-]; a name that yields nothing after filtering gives the
\* default identifier "template".
C7_IdentifierIsSafe ==
    st_res.op = "save" =>
        LET id   == Identifier(st_res.path)
            name == st_res.name
        IN  /\ st_res.path = id \o dot_json
            /\ st_res.path \in DOMAIN files
            /\ id # <<>>
            /\ \A i \in 1..Len(id) : IsAlnum(id[i]) \/ id[i] \in {"-", "_"}
            /\ (\A i \in 1..Len(name) : name[i] \notin NonAsciiLetters)
                  => \A i \in 1..Len(id) : id[i] \in AsciiIdChars
            /\ (\A i \in 1..Len(name) : ~IsAlnum(name[i]) /\ name[i] \notin {"-", "_"})
                  => id = s_template

C7_Witness ==
    /\ st_res # Idle
    /\ st_res.op = "save"
    /\ st_res.name = name_my
    /\ st_res.path = <<"M","y","_","T">> \o dot_json

\* the payload a stored document was saved from
Unstamped(doc) == PyDict([key \in DOMAIN doc.d \ {s_saved_at} |-> doc.d[key]])

\* the positions in the log of the saves whose name derives file name fn
SavesOf(fn) == {i \in 1..Len(log) : SafeName(log[i].name) \o dot_json = fn}

LastSaveOf(fn) == CHOOSE i \in SavesOf(fn) : \A j \in SavesOf(fn) : j <= i

C8_LoadReturnsLastSave ==
    /\ \A fn \in {SafeName(n) \o dot_json : n \in SaveNames} :
          SavesOf(fn) # {} =>
              /\ fn \in DOMAIN files
              /\ load_template(files, fn).exc = ""
              /\ Unstamped(load_template(files, fn).val) = log[LastSaveOf(fn)].payload
    /\ (st_res.op = "load" /\ SavesOf(st_res.filename) # {}) =>
          /\ st_res.result.exc = ""
          /\ Unstamped(st_res.result.val) = log[LastSaveOf(st_res.filename)].payload
          /\ st_res.result.val.d[s_mapping] = log[LastSaveOf(st_res.filename)].payload.d[s_mapping]

C8_SaveTouchesOneDocument ==
    LET listed == Range(list_templates(files)) IN
    /\ \A fn \in DOMAIN InitialDir :
          /\ fn \in DOMAIN files
          /\ SavesOf(fn) = {} => files[fn] = InitialDir[fn]
    /\ \A fn \in DOMAIN files : fn \in DOMAIN InitialDir \/ SavesOf(fn) # {}
    /\ Range(list_templates(InitialDir)) \subseteq listed
    /\ \A i \in 1..Len(log) : SafeName(log[i].name) \o dot_json \in listed
    /\ st_res.op = "list" => Range(st_res.result) = listed

\* C8: after any sequence of saves, load of an identifier returns the
\* document (mapping included, the added timestamp aside) of the most recent
\* save whose name derives that identifier; a save changes only the document
\* of its own derived identifier (every other file is as the directory first
\* held it), and no document disappears from list().
C8_StoreKeepsLastSave ==
    C8_LoadReturnsLastSave /\ C8_SaveTouchesOneDocument

C8_Witness ==
    /\ Len(log) = 2
    /\ log[1].name = name_my /\ log[2].name = name_my2
    /\ log[1].payload # log[2].payload
    /\ st_res.op = "load"
    /\ st_res.filename = <<"M","y","_","T">> \o dot_json
    /\ st_res.result.exc = ""
    /\ Unstamped(st_res.result.val) = log[2].payload

\* The rule a column out of view is to hold: the normalized entry of the
\* template now chosen, Blank without a template, a loadable one or an entry.
PrefillRuleOf(tgt) ==
    LET r == IF chosen_tpl = no_template THEN [exc |-> "none"]
             ELSE load_template(files, chosen_tpl)
    IN  IF r.exc # "" THEN RuleBlank
        ELSE IF ~IsDict(r.val) THEN RuleBlank
        ELSE IF s_mapping \notin DOMAIN r.val.d THEN RuleBlank
        ELSE IF ~IsDict(r.val.d[s_mapping]) THEN RuleBlank
        ELSE IF tgt \notin DOMAIN r.val.d[s_mapping].d THEN RuleBlank
        ELSE normalize_rule(r.val.d[s_mapping].d[tgt], blank_option, manual_option)

HiddenTgts == Range(tgt_cols) \ Range(run.visible)

\* C5: the mapping a pass produces has exactly the target columns as its
\* keys, whatever the prefill and whichever columns the search shows.
C5_MappingKeysAreTargets ==
    run.crashed_at = 0 =>
        /\ IsDict(run.mapping)
        /\ DOMAIN run.mapping.d = Range(tgt_cols)

\* C5 witness: a pass with every target column out of view and a prefill
\* that names a column the target sheet does not have.
C5_Witness ==
    /\ run.crashed_at = 0
    /\ tgt_cols # <<>>
    /\ run.visible = <<>>
    /\ DOMAIN run.prefill.d \ Range(tgt_cols) # {}
    /\ DOMAIN run.mapping.d = Range(tgt_cols)

\* The chosen template is unparseable, or parses to something that is no
\* object or whose "mapping" is no object.
ChosenIsNoTemplateDocument ==
    /\ chosen_tpl # no_template
    /\ LET r == load_template(files, chosen_tpl)
       IN  \/ r.exc # ""
           \/ /\ r.exc = ""
              /\ \/ ~IsDict(r.val)
                 \/ /\ IsDict(r.val)
                    /\ s_mapping \in DOMAIN r.val.d
                    /\ ~IsDict(r.val.d[s_mapping])

\* C9: a chosen template that cannot be loaded as a template document is
\* reported with a message, and the pass goes on with an empty prefill:
\* every target column defaults to Blank and the transform runs.
C9_LoadFailureIsRecoverable ==
    ChosenIsNoTemplateDocument =>
        /\ run.msg = "error"
        /\ run.crashed_at = 0
        /\ run.prefill = PyDict(<<>>)
        /\ \A tgt \in Range(run.visible) : widgets[tgt].default_choice = blank_option
        /\ \A tgt \in HiddenTgts : run.mapping.d[tgt] = RuleBlank
        /\ run.out_df # PyNone

\* the rule the widgets of a visible column stand for
WidgetRule(w) ==
    IF w.choice = manual_option THEN RuleManual(w.text.s)
    ELSE IF w.choice = blank_option THEN RuleBlank
    ELSE RuleSource(w.choice)

\* C10: in every pass a column out of view holds the normalized prefill rule
\* of the chosen template (Blank without one), whatever was chosen for the
\* columns in view; a column in view holds the choice of its widgets.
C10_HiddenKeepPrefillVisibleTakeLive ==
    run.crashed_at = 0 =>
        /\ \A tgt \in HiddenTgts : run.mapping.d[tgt] = PrefillRuleOf(tgt)
        /\ \A tgt \in Range(run.visible) :
              /\ tgt \in DOMAIN widgets
              /\ run.mapping.d[tgt] = WidgetRule(widgets[tgt])

\* C10 witness: a column out of view holds a prefill rule that is not Blank
\* while a column in view holds a source column the user picked for it.
C10_Witness ==
    /\ run.crashed_at = 0
    /\ \E tgt \in HiddenTgts :
          /\ run.mapping.d[tgt] # RuleBlank
          /\ run.mapping.d[tgt] = PrefillRuleOf(tgt)
    /\ \E tgt \in Range(run.visible) :
          /\ widgets[tgt].choice = col_Ad
          /\ widgets[tgt].default_choice # col_Ad
          /\ run.mapping.d[tgt] = RuleSource(col_Ad)
          /\ run.mapping.d[tgt] # PrefillRuleOf(tgt)

=============================================================================
